---- MODULE Spec2Model ----
(***************************************************************************)
(* AudioSocket for Asterisk: the wire codec, the identifier handshake and  *)
(* the relay loops of                                                      *)
(*   src/asterisk/res/res_audiosocket.c      (support functions)           *)
(*   src/asterisk/apps/app_audiosocket.c     (application, variant         *)
(*                                            "app_new")                   *)
(*   src/asterisk/app_audiosocket.c          (stand-alone application,     *)
(*                                            variant "app_old")           *)
(*   src/asterisk/channels/chan_audiosocket.c (channel driver, "chan")     *)
(* One session is modelled: a connected non-blocking socket, a channel,    *)
(* and the thread that relays between them.  The socket peer, the channel  *)
(* and the Asterisk core are the environment.                              *)
(***************************************************************************)
EXTENDS Integers, Sequences, FiniteSets, TLC

(* ------------------------------ bounds -------------------------------- *)
\* messages the socket peer sends in one session
MaxMsgs == 2
\* largest payload length of a message sent by the peer
MaxPayload == 2
\* frames the channel produces in one session
MaxFrames == 2
\* callbacks the Asterisk core issues on the channel driver
MaxOps == 3
\* candidate addresses the resolver returns for the server
MaxAddrs == 3
\* polls that do not end the wait for one connecting socket
MaxPolls == 2
\* audio messages each of two concurrent sessions receives
MaxSessFrames == 2

(* ------------------------- protocol constants ------------------------- *)
KIND_AUDIO == 16
KIND_ID == 1
UUID_LEN == 16

Min(a, b) == IF a < b THEN a ELSE b

Prefix(s, n) == SubSeq(s, 1, n)

Drop(s, n) == SubSeq(s, n + 1, Len(s))

IsPrefix(s, t) == Len(s) <= Len(t) /\ Prefix(t, Len(s)) = s

(* ------------------------------ inputs -------------------------------- *)
\* session UUIDs, as 16 raw bytes
UUID1 == <<18, 52, 86, 120, 154, 188, 222, 240, 1, 35, 69, 103, 137, 171, 205, 239>>

UUIDS ==
  { UUID1,
    <<1, 0, 16, 0, 0, 0, 0, 0, 0, 0, 0, 0, 0, 0, 16, 255>>,
    <<0, 0, 0, 0, 0, 0, 0, 0, 0, 0, 0, 0, 0, 0, 0, 0>>,
    <<255, 254, 253, 252, 251, 250, 249, 248, 247, 246, 245, 244, 243, 242, 241, 240>> }

\* kind bytes the peer may send: audio, terminate, identifier, unknown, error
PeerKinds == {16, 0, 1, 126, 255}

\* payload lengths the peer may send
PeerLens == {0, MaxPayload}

\* payload bytes of the peer's idx-th message, of length n: the first message
\* carries 0xAA, 0xBB, ..., later ones differ from it in every byte
PeerPayload(idx, n) == [j \in 1..n |-> 153 + 17 * j + (idx - 1)]

\* payloads of the voice frames the channel produces (F1, F2)
F1Data == <<17, 34>>
F2Data == <<51>>

VoiceFrame(d) ==
  [frametype |-> "VOICE", data |-> d, datalen |-> Len(d), samples |-> Len(d) \div 2]

ControlFrame ==
  [frametype |-> "CONTROL", data |-> <<>>, datalen |-> 0, samples |-> 0]

\* what ast_read yields for a hung-up channel (a NULL frame pointer)
HangupEvent ==
  [frametype |-> "HANGUP", data |-> <<>>, datalen |-> 0, samples |-> 0]

ChanFrames == {VoiceFrame(F1Data), VoiceFrame(F2Data), ControlFrame}

ast_null_frame ==
  [frametype |-> "NULL", data |-> <<>>, datalen |-> 0, samples |-> 0]

\* a NULL struct ast_frame pointer
NULL ==
  [frametype |-> "NOFRAME", data |-> <<>>, datalen |-> 0, samples |-> 0]

VARIABLES
  variant,    \* which revision runs the session: "app_old", "app_new", "chan"
  inp,        \* what this session's environment produces: [kinds, lens, frames]
  uuid,       \* the session UUID (16 bytes)
  pc,         \* position of the session thread
  runRet,     \* value audiosocket_run returned: "none", "0", "1" or "-1"
  exitAt,     \* the return statement the relay left by ("none" while running)
  wreqs,      \* write(2) calls on the socket: <<[buf, acc, op]>>
  sockIn,     \* bytes of the peer's current message still in flight
  sockAvail,  \* bytes arrived and not yet read
  sockEnd,    \* "open", "eof" (peer closed), "reset" (connection error)
  sockMsgs,   \* messages the peer has started to send
  rcount,     \* bytes read from the socket so far
  chanQ,      \* frames the channel holds ready for ast_read
  chanHist,   \* everything the channel has produced
  chanState,  \* ast_channel_state: "UP" or "DOWN"
  lastRead,   \* what the latest ast_read returned (NULL is HangupEvent)
  chanOut,    \* voice frames ast_write accepted, in order
  lastWrite,  \* the latest ast_write call: [f, ok]
  nullWrites, \* whether ast_write was ever called with a frame that is not voice
  wfmt,       \* channel write format: "orig" or "slin"
  rfmt,       \* channel read format
  rd,         \* locals of the running audiosocket_receive_frame call
  fatal,      \* whether a decoder call has returned a fatal error
  closes,     \* close(2) calls on the session socket
  pvt,        \* the driver channel's tech_pvt: "instance" or "NULL"
  ops,        \* driver callbacks issued so far (variant "chan")
  drvRet,     \* what the latest driver callback returned
  codec,      \* one audiosocket_send_frame call on its own, and the decoding
              \* of what it wrote: the inputs and what was observed
  conn,       \* one audiosocket_connect call: its locals and its sockets
  duo,        \* two sessions receiving at once: the static frame of
              \* audiosocket_receive_frame and each thread's locals
  req         \* the caller of audiosocket_connect creating a session:
              \* audiosocket_thread or the driver's audiosocket_request

vars ==
  <<variant, inp, uuid, pc, runRet, exitAt, wreqs, sockIn, sockAvail, sockEnd,
    sockMsgs, rcount, chanQ, chanHist, chanState, lastRead, chanOut,
    lastWrite,
    nullWrites, wfmt, rfmt, rd, fatal, closes, pvt, ops, drvRet, codec, conn, duo,
    req>>

sockVars == <<sockIn, sockAvail, sockEnd, sockMsgs, rcount>>

chanInVars == <<chanQ, chanHist, chanState, lastRead>>

chanOutVars == <<chanOut, lastWrite, nullWrites>>

fmtVars == <<wfmt, rfmt>>

runVars == <<runRet, exitAt>>

drvVars == <<pvt, ops, drvRet>>

fixedVars == <<variant, inp, uuid>>

\* state of the runs that exercise single functions
auxVars == <<codec, conn, duo, req>>

(* --------------------------- wire encoding ---------------------------- *)
\* A message on the wire: kind, 16-bit big-endian length, payload.
Encode(m) ==
  <<m.kind, (Len(m.payload) \div 256) % 256, Len(m.payload) % 256>> \o m.payload

\* the messages the peer may send as its idx-th, given the kinds and lengths
\* this session's peer uses
PeerMsgs(idx, kinds, lens) ==
  { [kind |-> k, payload |-> PeerPayload(idx, n)] : k \in kinds, n \in lens }

\* bytes accepted by the socket so far, in order
RECURSIVE Accepted(_)
Accepted(ws) ==
  IF ws = <<>> THEN <<>>
  ELSE (IF Head(ws).acc > 0 THEN Prefix(Head(ws).buf, Head(ws).acc) ELSE <<>>)
       \o Accepted(Tail(ws))

SockOut == Accepted(wreqs)

(* -------------------------- audiosocket_init -------------------------- *)
HexDash == 16

\* positions (1-based) of the dashes in the 36-character string form
DashPos == {9, 14, 19, 24}

\* position in the string of the h-th hex digit, h in 1..32
HexPos(h) ==
  IF h <= 8 THEN h
  ELSE IF h <= 12 THEN h + 1
  ELSE IF h <= 16 THEN h + 2
  ELSE IF h <= 20 THEN h + 3
  ELSE h + 4

\* ast_uuid_to_str: the 36-character lower-case string form; hex digits are
\* modelled by their values 0..15 and '-' by HexDash
ast_uuid_to_str(uu) ==
  [p \in 1..36 |->
     IF p \in DashPos THEN HexDash
     ELSE LET h == p - Cardinality({d \in DashPos : d < p})
              b == uu[(h + 1) \div 2]
          IN  IF h % 2 = 1 THEN b \div 16 ELSE b % 16]

\* uuid_parse: <<>> when the string is malformed, else the 16 bytes
uuid_parse(s) ==
  IF \/ Len(s) # 36
     \/ \E p \in DashPos : s[p] # HexDash
     \/ \E p \in (1..36) \ DashPos : s[p] \notin 0..15
  THEN <<>>
  ELSE [i \in 1..UUID_LEN |-> 16 * s[HexPos(2 * i - 1)] + s[HexPos(2 * i)]]

\* as init_buf, with the two length bytes in the other order
init_buf_swapped(uu) == <<KIND_ID, 16, 0>> \o uu

\* the buffer audiosocket_init hands to write(2)
init_buf(uu) == <<KIND_ID, 0, 16>> \o uu

\* as send_buf, with the length low byte first
send_buf_little(f) ==
  <<KIND_AUDIO, f.datalen % 256, (f.datalen \div 256) % 256>> \o f.data

\* the buffer audiosocket_send_frame hands to write(2)
send_buf(f) ==
  <<KIND_AUDIO, (f.datalen \div 256) % 256, f.datalen % 256>> \o f.data

\* as is_voice, taking every frame for audio
is_voice_any(f) == TRUE

\* f->frametype == AST_FRAME_VOICE
is_voice(f) == f.frametype = "VOICE"

\* results write(2) may give for n bytes: -1 (error), n (all accepted), or a
\* short count: none, the 3-byte header only, all but the last byte
WriteResults(n) == {-1, n} \cup {k \in {0, 3, n - 1} : k >= 0 /\ k < n}

\* as write_failed, taking only an error return for a failure
write_failed_error_only(acc, n) == acc < 0

\* write(svc, buf, n) != n
write_failed(acc, n) == acc # n

\* buf is the payload buffer of the call: "none" before data = ast_malloc(len),
\* then "allocated", and "owned" once f.data.ptr holds it
NoCall ==
  [kind |-> 0, len |-> 0, data |-> <<>>, not_audio |-> FALSE,
   consumed |-> 0, site |-> "none", start |-> 0, buf |-> "none"]

NoWrite == [f |-> NULL, ok |-> TRUE]

\* audiosocket_connect not called; candidates and their sockets are numbered
\* from 1, s = -1 is no descriptor, ret = -2 is not returned
NoConn ==
  [pc |-> "none", num |-> 0, i |-> 1, s |-> -1, errno |-> "none", res |-> 1,
   polls |-> 0, socks |-> <<>>, fate |-> <<>>, ret |-> -2]

\* static struct ast_frame f before any call: zero-initialised
StaticZero ==
  [frametype |-> "ZERO", data |-> <<>>, datalen |-> 0, samples |-> 0]

\* two session threads, neither inside audiosocket_receive_frame
NoDuo ==
  [f |-> StaticZero,
   pcs |-> <<"idle", "idle">>,
   len |-> <<0, 0>>,
   data |-> << <<>>, <<>> >>,
   dec |-> << <<>>, <<>> >>,
   out |-> << <<>>, <<>> >>]

\* no session being created: no instance allocated, no channel, no
\* descriptor held, audiosocket_run not entered, no handshake write made
NoReq ==
  [pc |-> "none", instance |-> "none", chan |-> "none", fd |-> -1,
   ret |-> "none", run |-> FALSE, hs |-> "none"]

\* no audiosocket_send_frame call made on its own
NoCodec ==
  [stage |-> "none", len |-> 0, seed |-> 0, acc |-> 0, ret |-> "none",
   hdr |-> <<>>, buflen |-> 0, bodyOk |-> FALSE,
   site |-> "none", dlen |-> 0, dsamples |-> 0, dataOk |-> FALSE,
   consumed |-> 0]

InitOf(variants, uuids, kinds, lens, frames) ==
  /\ variant \in variants
  /\ inp = [kinds |-> kinds, lens |-> lens, frames |-> frames]
  /\ uuid \in uuids
  /\ pc = IF variant = "chan" THEN "idle" ELSE "start"
  /\ runRet = "none"
  /\ exitAt = "none"
  /\ wreqs = <<>>
  /\ sockIn = <<>>
  /\ sockAvail = <<>>
  /\ sockEnd = "open"
  /\ sockMsgs = <<>>
  /\ rcount = 0
  /\ chanQ = <<>>
  /\ chanHist = <<>>
  /\ chanState = "UP"
  /\ lastRead = NULL
  /\ chanOut = <<>>
  /\ lastWrite = NoWrite
  /\ nullWrites = FALSE
  /\ wfmt = "orig"
  /\ rfmt = "orig"
  /\ rd = NoCall
  /\ fatal = FALSE
  /\ closes = 0
  /\ pvt = IF variant = "chan" THEN "instance" ELSE "NULL"
  /\ ops = 0
  /\ drvRet = "none"
  /\ codec = NoCodec
  /\ conn = NoConn
  /\ duo = NoDuo
  /\ req = NoReq

(* --------------------------- environment ------------------------------ *)
\* The environment is observed by the session only at these positions: the
\* socket by the decoder's reads and by the readiness wait, the channel by
\* the readiness wait and the state checks.  Its steps are taken there.
DecoderPcs == {"rd_kind", "rd_lenhi", "rd_lenlo", "rd_data"}

SockLive ==
  IF variant = "chan" THEN pvt = "instance" /\ pc \in DecoderPcs \cup {"idle"}
  ELSE pc \in DecoderPcs \cup {"wait"}

ChanLive == variant # "chan" /\ pc = "wait"

\* The peer starts to send one more message.
PeerSend ==
  /\ SockLive /\ sockEnd = "open" /\ sockIn = <<>> /\ Len(sockMsgs) < MaxMsgs
  /\ \E m \in PeerMsgs(Len(sockMsgs) + 1, inp.kinds, inp.lens) :
       /\ sockIn' = Encode(m)
       /\ sockMsgs' = Append(sockMsgs, m)
  /\ UNCHANGED <<fixedVars, auxVars, pc, runVars, wreqs, sockAvail, sockEnd, rcount,
                 chanInVars, chanOutVars, fmtVars, rd, fatal, closes, drvVars>>

\* Some more bytes of the message in flight arrive at the socket.
PeerDeliver ==
  /\ SockLive /\ sockIn # <<>>
  /\ \E k \in 1..Len(sockIn) :
       /\ sockAvail' = sockAvail \o Prefix(sockIn, k)
       /\ sockIn' = Drop(sockIn, k)
  /\ UNCHANGED <<fixedVars, auxVars, pc, runVars, wreqs, sockEnd, sockMsgs, rcount,
                 chanInVars, chanOutVars, fmtVars, rd, fatal, closes, drvVars>>

\* The peer closes the connection (end of stream) or the connection breaks;
\* bytes still in flight never arrive.
PeerClose ==
  /\ SockLive /\ sockEnd = "open"
  /\ sockEnd' \in {"eof", "reset"}
  /\ sockIn' = <<>>
  /\ UNCHANGED <<fixedVars, auxVars, pc, runVars, wreqs, sockAvail, sockMsgs, rcount,
                 chanInVars, chanOutVars, fmtVars, rd, fatal, closes, drvVars>>

HungUp == chanHist # <<>> /\ chanHist[Len(chanHist)] = HangupEvent

\* The channel has one more frame for ast_read.
ChanProduce ==
  /\ ChanLive /\ chanQ = <<>> /\ ~HungUp
  /\ Len(chanHist) < MaxFrames
  /\ \E f \in inp.frames :
       /\ chanQ' = <<f>>
       /\ chanHist' = Append(chanHist, f)
  /\ UNCHANGED <<fixedVars, auxVars, pc, runVars, wreqs, sockVars, chanState, lastRead,
                 chanOutVars, fmtVars, rd, fatal, closes, drvVars>>

\* The far end of the call hangs up: ast_read yields NULL from now on.
ChanHangup ==
  /\ ChanLive /\ chanQ = <<>> /\ ~HungUp
  /\ chanQ' = <<HangupEvent>>
  /\ chanHist' = Append(chanHist, HangupEvent)
  /\ UNCHANGED <<fixedVars, auxVars, pc, runVars, wreqs, sockVars, chanState, lastRead,
                 chanOutVars, fmtVars, rd, fatal, closes, drvVars>>

\* The channel leaves the UP state.
ChanDown ==
  /\ variant # "chan" /\ pc \in {"run", "wait"} /\ chanState = "UP"
  /\ chanState' = "DOWN"
  /\ UNCHANGED <<fixedVars, auxVars, pc, runVars, wreqs, sockVars, chanQ, chanHist,
                 lastRead, chanOutVars, fmtVars, rd, fatal, closes, drvVars>>

(* ------------------------- socket primitives -------------------------- *)
\* read(svc, buf, cnt) on the non-blocking socket: the count returned
read_n(cnt) ==
  IF sockAvail # <<>> THEN Min(cnt, Len(sockAvail))
  ELSE IF sockEnd = "eof" THEN 0
  ELSE -1

\* errno after read returned -1
read_errno == IF sockEnd = "reset" THEN "ECONNRESET" ELSE "EAGAIN"

WriteReq(buf, acc, op) == [buf |-> buf, acc |-> acc, op |-> op]

(* --------------------- audiosocket_receive_frame ---------------------- *)
\* The return statement taken when the read of the kind byte gave n # 1.
kind_site(n, errno) ==
  IF n < 0 /\ errno = "EAGAIN" THEN "again"
  ELSE IF n = 0 THEN "eof"
  ELSE "err_kind"

\* kind != 0x10
not_audio_of(kind) == kind # KIND_AUDIO

\* The return statement taken after the payload loop ended with ret = 0.
payload_site(not_audio) == IF not_audio THEN "ignored" ELSE "frame"

FatalSites == {"err_kind", "err_len", "err_data"}

\* as frame_of, but a read that fails after the kind byte yields the null
\* frame instead of NULL
frame_of_lenient(r) ==
  IF r.site = "err_kind" THEN NULL
  ELSE IF r.site # "frame" THEN ast_null_frame
  ELSE [frametype |-> "VOICE", data |-> r.data, datalen |-> r.len,
        samples |-> r.len \div 2]

\* What res_audiosocket.c's audiosocket_receive_frame returns at each site.
frame_of(r) ==
  IF r.site \in FatalSites THEN NULL
  ELSE IF r.site \in {"again", "eof", "empty", "ignored"} THEN ast_null_frame
  ELSE [frametype |-> "VOICE", data |-> r.data, datalen |-> r.len,
        samples |-> r.len \div 2]

\* The decoder call returns at `site`.
DecoderReturn(site) ==
  /\ pc' = "rd_ret"
  /\ rd' = [rd EXCEPT !.site = site]
  /\ fatal' = (fatal \/ site \in FatalSites)
  /\ UNCHANGED <<sockAvail, rcount>>

\* n = read(svc, &kind, 1)
receive_frame_kind ==
  /\ pc = "rd_kind"
  /\ LET n == read_n(1) IN
       IF n = 1
       THEN /\ rd' = [rd EXCEPT !.kind = Head(sockAvail),
                                !.not_audio = not_audio_of(Head(sockAvail)),
                                !.consumed = 1]
            /\ sockAvail' = Tail(sockAvail)
            /\ rcount' = rcount + 1
            /\ pc' = "rd_lenhi"
            /\ UNCHANGED fatal
       ELSE DecoderReturn(kind_site(n, read_errno))
  /\ UNCHANGED <<fixedVars, auxVars, runVars, wreqs, sockIn, sockEnd, sockMsgs,
                 chanInVars, chanOutVars, fmtVars, closes, drvVars>>

\* n = read(svc, &len_high, 1); len += len_high * 256
receive_frame_len_high ==
  /\ pc = "rd_lenhi"
  /\ LET n == read_n(1) IN
       IF n # 1
       THEN DecoderReturn("err_len")
       ELSE /\ rd' = [rd EXCEPT !.len = (Head(sockAvail) * 256) % 65536,
                                !.consumed = @ + 1]
            /\ sockAvail' = Tail(sockAvail)
            /\ rcount' = rcount + 1
            /\ pc' = "rd_lenlo"
            /\ UNCHANGED fatal
  /\ UNCHANGED <<fixedVars, auxVars, runVars, wreqs, sockIn, sockEnd, sockMsgs,
                 chanInVars, chanOutVars, fmtVars, closes, drvVars>>

\* n = read(svc, &len_low, 1); len += len_low; if (len < 1) return
receive_frame_len_low ==
  /\ pc = "rd_lenlo"
  /\ LET n == read_n(1)
         len == (rd.len + Head(sockAvail)) % 65536
     IN  IF n # 1
         THEN DecoderReturn("err_len")
         ELSE /\ sockAvail' = Tail(sockAvail)
              /\ rcount' = rcount + 1
              /\ rd' = [rd EXCEPT !.len = len, !.consumed = @ + 1,
                                  !.site = IF len < 1 THEN "empty" ELSE @,
                                  !.buf = IF len < 1 THEN @ ELSE "allocated"]
              /\ pc' = IF len < 1 THEN "rd_ret" ELSE "rd_data"
              /\ UNCHANGED fatal
  /\ UNCHANGED <<fixedVars, auxVars, runVars, wreqs, sockIn, sockEnd, sockMsgs,
                 chanInVars, chanOutVars, fmtVars, closes, drvVars>>

\* as payload_want, asking for the whole length on every pass
payload_want_whole(len, i) == len

\* the count asked of read in the payload loop: len - i
payload_want(len, i) == len - i

\* while (i < len) { n = read(svc, data+i, len-i); ... i += n; }
receive_frame_data ==
  /\ pc = "rd_data"
  /\ LET i == Len(rd.data)
         n == read_n(payload_want(rd.len, i))
     IN  IF n <= 0
         THEN DecoderReturn("err_data")
         ELSE /\ sockAvail' = Drop(sockAvail, n)
              /\ rcount' = rcount + n
              /\ rd' = [rd EXCEPT !.data = @ \o Prefix(sockAvail, n),
                                  !.consumed = @ + n,
                                  !.site = IF i + n < rd.len THEN @
                                           ELSE payload_site(rd.not_audio),
                                  !.buf = IF i + n < rd.len \/ rd.not_audio
                                          THEN @ ELSE "owned"]
              /\ pc' = IF i + n < rd.len THEN "rd_data" ELSE "rd_ret"
              /\ UNCHANGED fatal
  /\ UNCHANGED <<fixedVars, auxVars, runVars, wreqs, sockIn, sockEnd, sockMsgs,
                 chanInVars, chanOutVars, fmtVars, closes, drvVars>>

(* --------------------------- ast_write -------------------------------- *)
\* ast_write(chan, f) with the outcome ok
AstWrite(f, ok) ==
  /\ lastWrite' = [f |-> f, ok |-> ok]
  /\ nullWrites' = (nullWrites \/ f.frametype # "VOICE")
  /\ chanOut' = IF ok /\ f.frametype = "VOICE" THEN Append(chanOut, f) ELSE chanOut

(* --------------------------- handshake -------------------------------- *)
\* The bytes audiosocket_init hands to write(2); <<>> when it returns before
\* writing because the UUID does not parse.
init_request(v, uu) ==
  IF v = "app_old" THEN init_buf(uu)
  ELSE LET parsed == uuid_parse(ast_uuid_to_str(uu))
       IN  IF parsed = <<>> THEN <<>> ELSE init_buf(parsed)

\* entering the decoder
StartCall == [NoCall EXCEPT !.start = rcount]

\* audiosocket_run returns r by the return statement `site`.
Return(r, site) == pc' = "ret" /\ runRet' = r /\ exitAt' = site

(* -------- apps/app_audiosocket.c: audiosocket_thread / _run ----------- *)
\* audiosocket_thread after a successful connect: the channel formats are
\* set to slin before the relay runs.
audiosocket_thread_setup ==
  /\ variant = "app_new" /\ pc = "start"
  /\ \E wok \in BOOLEAN, rok \in BOOLEAN :
       IF ~wok
       THEN /\ pc' = "exit" /\ exitAt' = "thread_wfmt"
            /\ UNCHANGED fmtVars
       ELSE IF ~rok
       THEN /\ pc' = "exit" /\ exitAt' = "thread_rfmt"
            /\ wfmt' \in {"orig", "slin"}
            /\ UNCHANGED rfmt
       ELSE /\ pc' = "run" /\ exitAt' = exitAt
            /\ wfmt' = "slin" /\ rfmt' = "slin"
  /\ UNCHANGED <<fixedVars, auxVars, runRet, wreqs, sockVars, chanInVars, chanOutVars,
                 rd, fatal, closes, drvVars>>

\* audiosocket_run up to the loop: channel state check, then the handshake.
audiosocket_run_start ==
  /\ variant = "app_new" /\ pc = "run"
  /\ IF chanState # "UP"
     THEN Return("-1", "run_state") /\ UNCHANGED wreqs
     ELSE LET buf == init_request(variant, uuid) IN
          IF buf = <<>>
          THEN Return("-1", "init_parse") /\ UNCHANGED wreqs
          ELSE \E acc \in WriteResults(Len(buf)) :
                 /\ wreqs' = Append(wreqs, WriteReq(buf, acc, "init"))
                 /\ IF write_failed(acc, 3 + UUID_LEN)
                    THEN Return("-1", "init")
                    ELSE pc' = "wait" /\ UNCHANGED runVars
  /\ UNCHANGED <<fixedVars, auxVars, sockVars, chanInVars, chanOutVars, fmtVars, rd,
                 fatal, closes, drvVars>>

\* The loop goes on to its socket half: the decoder is called when the wait
\* reported the socket (outfd >= 0), else the next iteration starts.
ToSocketHalf(outfd_ready) ==
  /\ pc' = IF outfd_ready THEN "rd_kind" ELSE "wait"
  /\ rd' = IF outfd_ready THEN StartCall ELSE rd
  /\ UNCHANGED runVars

\* the socket is readable: data has arrived, or end of stream / error is pending
SockReadable == sockAvail # <<>> \/ sockEnd # "open"

\* One pass of while (1): ast_waitfor_nandfds with ms = 0, then the channel
\* half: ast_read and audiosocket_send_frame.
audiosocket_run_iterate ==
  /\ variant = "app_new" /\ pc = "wait"
  /\ \E targetChan \in {FALSE} \cup {t \in {TRUE} : chanQ # <<>>},
        outfd_ready \in {FALSE} \cup {t \in {TRUE} : SockReadable} :
       IF ~targetChan
       THEN ToSocketHalf(outfd_ready) /\ UNCHANGED <<chanQ, wreqs, lastRead>>
       ELSE LET f == Head(chanQ) IN
            IF f = HangupEvent
            THEN /\ Return("-1", "read_null")
                 /\ lastRead' = f
                 /\ UNCHANGED <<chanQ, wreqs, rd>>
            ELSE /\ chanQ' = Tail(chanQ)
                 /\ lastRead' = f
                 /\ IF is_voice(f)
                    THEN \E acc \in WriteResults(3 + f.datalen) :
                           /\ wreqs' = Append(wreqs, WriteReq(send_buf(f), acc, "send"))
                           /\ IF write_failed(acc, 3 + f.datalen)
                              THEN Return("-1", "send") /\ UNCHANGED rd
                              ELSE ToSocketHalf(outfd_ready)
                    ELSE ToSocketHalf(outfd_ready) /\ UNCHANGED wreqs
  /\ UNCHANGED <<fixedVars, auxVars, sockVars, chanHist, chanState, chanOutVars,
                 fmtVars, fatal, closes, drvVars>>

\* f = ast_audiosocket_receive_frame(svc) has returned: NULL ends the loop,
\* any other frame goes to ast_write.
audiosocket_run_received ==
  /\ variant = "app_new" /\ pc = "rd_ret"
  /\ LET f == frame_of(rd) IN
       IF f = NULL
       THEN Return("-1", "recv_null") /\ UNCHANGED chanOutVars
       ELSE \E ok \in BOOLEAN :
              /\ AstWrite(f, ok)
              /\ IF ~ok THEN Return("-1", "chan_write")
                 ELSE pc' = "wait" /\ UNCHANGED runVars
  /\ UNCHANGED <<fixedVars, auxVars, wreqs, sockVars, chanInVars, fmtVars, rd, fatal,
                 closes, drvVars>>

\* audiosocket_thread after audiosocket_run returned: formats restored (each
\* restore may fail) and the socket closed.
audiosocket_thread_finish ==
  /\ variant = "app_new" /\ pc = "ret"
  /\ pc' = "exit"
  /\ wfmt' \in {"orig", wfmt}
  /\ rfmt' \in {"orig", rfmt}
  /\ closes' = closes + 1
  /\ UNCHANGED <<fixedVars, auxVars, runVars, wreqs, sockVars, chanInVars, chanOutVars,
                 rd, fatal, drvVars>>

(* ---------- app_audiosocket.c: audiosocket_exec / _run ---------------- *)
\* audiosocket_run up to the loop: formats, then the handshake.
old_audiosocket_run_start ==
  /\ variant = "app_old" /\ pc = "start"
  /\ \E wok \in BOOLEAN, rok \in BOOLEAN :
       IF ~wok
       THEN Return("1", "run_wfmt") /\ UNCHANGED <<fmtVars, wreqs>>
       ELSE IF ~rok
       THEN Return("1", "run_rfmt") /\ wfmt' = "slin" /\ UNCHANGED <<rfmt, wreqs>>
       ELSE /\ wfmt' = "slin" /\ rfmt' = "slin"
            /\ LET buf == init_request(variant, uuid) IN
               \E acc \in WriteResults(Len(buf)) :
                 /\ wreqs' = Append(wreqs, WriteReq(buf, acc, "init"))
                 /\ IF write_failed(acc, 3 + UUID_LEN)
                    THEN Return("1", "init")
                    ELSE pc' = "wait" /\ UNCHANGED runVars
  /\ UNCHANGED <<fixedVars, auxVars, sockVars, chanInVars, chanOutVars, rd, fatal,
                 closes, drvVars>>

\* ast_waitfor(chan, -1) returns (with a result > -1) once the channel is
\* ready; the socket is not among what it waits for.
old_wait_ready(q, sock_readable) == q # <<>>

\* One pass of while (ast_waitfor(chan, -1) > -1): the wait returns when the
\* channel is ready (or fails), then state check, ast_read and
\* audiosocket_send_frame; audiosocket_forward_frame follows.
old_audiosocket_run_iterate ==
  /\ variant = "app_old" /\ pc = "wait"
  /\ \/ Return("0", "waitfor") /\ UNCHANGED <<chanQ, wreqs, rd, lastRead>>
     \/ /\ old_wait_ready(chanQ, SockReadable)
        /\ IF chanState # "UP"
           THEN Return("0", "state") /\ UNCHANGED <<chanQ, wreqs, rd, lastRead>>
           ELSE LET f == Head(chanQ) IN
                IF f = HangupEvent
                THEN /\ ToSocketHalf(TRUE)
                     /\ lastRead' = f
                     /\ UNCHANGED <<chanQ, wreqs>>
                ELSE /\ chanQ' = Tail(chanQ)
                     /\ lastRead' = f
                     /\ IF is_voice(f)
                        THEN \E acc \in WriteResults(3 + f.datalen) :
                               /\ wreqs' = Append(wreqs, WriteReq(send_buf(f), acc, "send"))
                               /\ IF write_failed(acc, 3 + f.datalen)
                                  THEN Return("1", "send") /\ UNCHANGED rd
                                  ELSE ToSocketHalf(TRUE)
                        ELSE ToSocketHalf(TRUE) /\ UNCHANGED wreqs
  /\ UNCHANGED <<fixedVars, auxVars, sockVars, chanHist, chanState, chanOutVars,
                 fmtVars, fatal, closes, drvVars>>

\* What audiosocket_forward_frame returns at each site before ast_write.
forward_ret(site) ==
  IF site = "err_kind" THEN "1"
  ELSE IF site = "err_len" THEN "2"
  ELSE IF site = "err_data" THEN "-1"
  ELSE "0"

\* audiosocket_forward_frame returns; a voice frame is written to the channel
\* by the function itself.  A non-zero result ends the loop.
old_audiosocket_forward_frame_return ==
  /\ variant = "app_old" /\ pc = "rd_ret"
  /\ IF rd.site = "frame"
     THEN \E ok \in BOOLEAN :
            /\ AstWrite(frame_of(rd), ok)
            /\ IF ~ok THEN Return("1", "forward")
               ELSE pc' = "wait" /\ UNCHANGED runVars
     ELSE /\ UNCHANGED chanOutVars
          /\ IF forward_ret(rd.site) # "0" THEN Return("1", "forward")
             ELSE pc' = "wait" /\ UNCHANGED runVars
  /\ UNCHANGED <<fixedVars, auxVars, wreqs, sockVars, chanInVars, fmtVars, rd, fatal,
                 closes, drvVars>>

\* audiosocket_exec after audiosocket_run returned: close(s).
old_audiosocket_exec_finish ==
  /\ variant = "app_old" /\ pc = "ret"
  /\ pc' = "exit"
  /\ closes' = closes + 1
  /\ UNCHANGED <<fixedVars, auxVars, runVars, wreqs, sockVars, chanInVars, chanOutVars,
                 fmtVars, rd, fatal, drvVars>>

(* ------------------- chan_audiosocket.c: the driver ------------------- *)
DriverIdle == variant = "chan" /\ pc = "idle" /\ ops < MaxOps

\* audiosocket_call: formats, then the handshake on instance->svc.  With the
\* tech_pvt gone the instance pointer is NULL and is dereferenced.
audiosocket_call ==
  /\ DriverIdle
  /\ ops' = ops + 1
  /\ IF pvt = "NULL"
     THEN /\ pc' = "crashed"
          /\ UNCHANGED <<fmtVars, wreqs, drvRet>>
     ELSE /\ pc' = pc
          /\ \E wok \in BOOLEAN, rok \in BOOLEAN :
               IF ~wok
               THEN drvRet' = "-1" /\ UNCHANGED <<fmtVars, wreqs>>
               ELSE IF ~rok
               THEN drvRet' = "-1" /\ wfmt' = "slin" /\ UNCHANGED <<rfmt, wreqs>>
               ELSE /\ wfmt' = "slin" /\ rfmt' = "slin"
                    /\ LET buf == init_request(variant, uuid) IN
                       IF buf = <<>>
                       THEN drvRet' = "-1" /\ UNCHANGED wreqs
                       ELSE \E acc \in WriteResults(Len(buf)) :
                              /\ wreqs' = Append(wreqs, WriteReq(buf, acc, "init"))
                              /\ drvRet' = IF write_failed(acc, 3 + UUID_LEN)
                                           THEN "-1" ELSE "0"
  /\ UNCHANGED <<fixedVars, auxVars, runVars, sockVars, chanInVars, chanOutVars, rd,
                 fatal, closes, pvt>>

\* audiosocket_write: audiosocket_send_frame on instance->svc.
audiosocket_write ==
  /\ DriverIdle
  /\ ops' = ops + 1
  /\ \E f \in inp.frames :
       IF pvt = "NULL"
       THEN drvRet' = "-1" /\ UNCHANGED wreqs
       ELSE \E acc \in WriteResults(3 + f.datalen) :
              /\ wreqs' = Append(wreqs, WriteReq(send_buf(f), acc, "send"))
              /\ drvRet' = IF write_failed(acc, 3 + f.datalen) THEN "-1" ELSE "0"
  /\ UNCHANGED <<fixedVars, auxVars, pc, runVars, sockVars, chanInVars, chanOutVars,
                 fmtVars, rd, fatal, closes, pvt>>

\* audiosocket_read: audiosocket_receive_frame on instance->svc.
audiosocket_read ==
  /\ DriverIdle
  /\ ops' = ops + 1
  /\ IF pvt = "NULL"
     THEN drvRet' = "NULL" /\ UNCHANGED <<pc, rd>>
     ELSE pc' = "rd_kind" /\ rd' = StartCall /\ drvRet' = "pending"
  /\ UNCHANGED <<fixedVars, auxVars, runVars, wreqs, sockVars, chanInVars, chanOutVars,
                 fmtVars, fatal, closes, pvt>>

\* audiosocket_read returns what audiosocket_receive_frame returned.
audiosocket_read_return ==
  /\ variant = "chan" /\ pc = "rd_ret"
  /\ pc' = "idle"
  /\ drvRet' = frame_of(rd).frametype
  /\ UNCHANGED <<fixedVars, auxVars, runVars, wreqs, sockVars, chanInVars, chanOutVars,
                 fmtVars, rd, fatal, closes, pvt, ops>>

\* as audiosocket_hangup, leaving the tech_pvt in place
audiosocket_hangup_keep ==
  /\ DriverIdle
  /\ ops' = ops + 1
  /\ closes' = IF pvt # "NULL" THEN closes + 1 ELSE closes
  /\ pvt' = pvt
  /\ drvRet' = "0"
  /\ UNCHANGED <<fixedVars, auxVars, pc, runVars, wreqs, sockVars, chanInVars,
                 chanOutVars, fmtVars, rd, fatal>>

\* audiosocket_hangup: close the socket, drop the tech_pvt.
audiosocket_hangup ==
  /\ DriverIdle
  /\ ops' = ops + 1
  /\ closes' = IF pvt # "NULL" THEN closes + 1 ELSE closes
  /\ pvt' = "NULL"
  /\ drvRet' = "0"
  /\ UNCHANGED <<fixedVars, auxVars, pc, runVars, wreqs, sockVars, chanInVars,
                 chanOutVars, fmtVars, rd, fatal>>

Decoder ==
  \/ receive_frame_kind
  \/ receive_frame_len_high
  \/ receive_frame_len_low
  \/ receive_frame_data

AppNew ==
  \/ audiosocket_thread_setup
  \/ audiosocket_run_start
  \/ audiosocket_run_iterate
  \/ audiosocket_run_received
  \/ audiosocket_thread_finish

AppOld ==
  \/ old_audiosocket_run_start
  \/ old_audiosocket_run_iterate
  \/ old_audiosocket_forward_frame_return
  \/ old_audiosocket_exec_finish

Driver ==
  \/ audiosocket_call
  \/ audiosocket_write
  \/ audiosocket_read
  \/ audiosocket_read_return
  \/ audiosocket_hangup

SockEnv == PeerSend \/ PeerDeliver \/ PeerClose

ChanEnv == ChanProduce \/ ChanHangup \/ ChanDown

\* The application relays one call, either revision; the peer sends messages
\* of every kind, the channel produces voice frames.
Init == InitOf({"app_old", "app_new"}, {UUID1}, PeerKinds, PeerLens,
               {VoiceFrame(F1Data)})

Next == SockEnv \/ ChanEnv \/ Decoder \/ AppNew \/ AppOld

Spec == Init /\ [][Next]_vars

\* The same, with a channel that produces voice and control frames and a
\* peer that sends audio only.
InitChannel == InitOf({"app_old", "app_new"}, {UUID1}, {KIND_AUDIO},
                      {MaxPayload}, ChanFrames)

SpecChannel == InitChannel /\ [][Next]_vars

\* The channel driver: the core issues callbacks on one channel.
InitDriver == InitOf({"chan"}, {UUID1}, {KIND_AUDIO}, {MaxPayload},
                     {VoiceFrame(F1Data)})

NextDriver == SockEnv \/ Decoder \/ Driver

SpecDriver == InitDriver /\ [][NextDriver]_vars

\* The handshake alone, in both revisions of the application and for several
\* UUIDs: the setup before it, audiosocket_init, and what the caller does
\* when it fails.
InitHandshake == InitOf({"app_old", "app_new"}, UUIDS, {KIND_AUDIO},
                        {MaxPayload}, {VoiceFrame(F1Data)})

NextHandshake ==
  \/ ChanDown
  \/ audiosocket_thread_setup
  \/ audiosocket_run_start
  \/ audiosocket_thread_finish
  \/ old_audiosocket_run_start
  \/ old_audiosocket_exec_finish

SpecHandshake == InitHandshake /\ [][NextHandshake]_vars

(* ------ audiosocket_send_frame and the decoder on their own ----------- *)
\* payload lengths: the ends of the 16-bit range, both sides of 255/256, and
\* a length beyond 16 bits
CodecLens == {0, 1, 2, 255, 256, 257, 65535, 65537}

CodecSeeds == {0, 85, 201}

CodecPayload(n, seed) == [j \in 1..n |-> (7 * j + seed) % 256]

\* what audiosocket_send_frame returns in revision v
send_ret(v, failed) ==
  IF ~failed THEN "0" ELSE IF v = "app_old" THEN "1" ELSE "-1"

\* the bytes of buf the socket accepted when write(2) returned acc
accepted_of(buf, acc) == IF acc > 0 THEN Prefix(buf, acc) ELSE <<>>

\* as wire_len, from the low byte alone
wire_len_low(hi, lo) == lo

\* uint16_t len = 0; len += len_high * 256; len += len_low
wire_len(hi, lo) == (hi * 256 + lo) % 65536

\* The locals of audiosocket_receive_frame at its return when `bytes` are all
\* the socket has for it and no more arrive during the call (the connection
\* stays open): each read gets what it asks for or fails with EAGAIN.
receive_frame_all(bytes) ==
  IF bytes = <<>>
  THEN [NoCall EXCEPT !.site = kind_site(-1, "EAGAIN")]
  ELSE LET kind == bytes[1]
           r1 == [NoCall EXCEPT !.kind = kind,
                                !.not_audio = not_audio_of(kind),
                                !.consumed = Min(3, Len(bytes))]
       IN  IF Len(bytes) < 3
           THEN [r1 EXCEPT !.site = "err_len"]
           ELSE LET len == wire_len(bytes[2], bytes[3])
                    n == Min(payload_want(len, 0), Len(bytes) - 3)
                    r3 == [r1 EXCEPT !.len = len]
                IN  IF len < 1
                    THEN [r3 EXCEPT !.site = "empty"]
                    ELSE IF n < len
                    THEN [r3 EXCEPT !.site = "err_data",
                                    !.data = SubSeq(bytes, 4, 3 + n),
                                    !.consumed = 3 + n]
                    ELSE [r3 EXCEPT !.site = payload_site(r1.not_audio),
                                    !.data = SubSeq(bytes, 4, 3 + len),
                                    !.consumed = 3 + len]

\* audiosocket_send_frame is called with a voice frame of n bytes; what it
\* handed to write(2) and what it returned are recorded.
codec_send_frame ==
  /\ variant # "chan" /\ codec.stage = "none"
  /\ \E n \in CodecLens, seed \in CodecSeeds :
       LET f == VoiceFrame(CodecPayload(n, seed))
           buf == send_buf(f)
       IN  \E acc \in WriteResults(3 + f.datalen) :
             codec' = [codec EXCEPT
                         !.stage = "sent", !.len = n, !.seed = seed,
                         !.acc = acc,
                         !.ret = send_ret(variant, write_failed(acc, 3 + f.datalen)),
                         !.hdr = Prefix(buf, 3),
                         !.buflen = Len(buf),
                         !.bodyOk = (Drop(buf, 3) = f.data)]
  /\ UNCHANGED <<fixedVars, conn, duo, req, pc, runVars, wreqs, sockVars,
                 chanInVars, chanOutVars, fmtVars, rd, fatal, closes, drvVars>>

\* The bytes the socket accepted come back from an echoing peer and
\* audiosocket_receive_frame is called on them.
codec_receive_frame ==
  /\ codec.stage = "sent"
  /\ LET p == CodecPayload(codec.len, codec.seed)
         bytes == accepted_of(send_buf(VoiceFrame(p)), codec.acc)
         r == receive_frame_all(bytes)
         fr == frame_of(r)
     IN  codec' = [codec EXCEPT
                     !.stage = "decoded", !.site = r.site,
                     !.dlen = fr.datalen, !.dsamples = fr.samples,
                     !.dataOk = (fr.data = p),
                     !.consumed = r.consumed]
  /\ UNCHANGED <<fixedVars, conn, duo, req, pc, runVars, wreqs, sockVars,
                 chanInVars, chanOutVars, fmtVars, rd, fatal, closes, drvVars>>

InitCodec == InitOf({"app_old", "app_new"}, {UUID1}, {KIND_AUDIO},
                    {MaxPayload}, {VoiceFrame(F1Data)})

NextCodec == codec_send_frame \/ codec_receive_frame

SpecCodec == InitCodec /\ [][NextCodec]_vars

(* ------------------------ audiosocket_connect ------------------------- *)
\* everything but conn
sessionVars ==
  <<fixedVars, codec, duo, req, pc, runVars, wreqs, sockVars, chanInVars, chanOutVars,
    fmtVars, rd, fatal, closes, drvVars>>

\* the ways one pass of the candidate loop can go, up to the connect call
CandidateOutcomes ==
  {"noport", "nosock", "noflags", "connected_now", "failed_now", "inprogress"}

\* the candidate loop goes on to the next address: continue
next_candidate(c, why) ==
  [c EXCEPT !.fate[c.i] = why, !.i = c.i + 1, !.pc = "loop"]

\* the candidate's socket is closed and the loop goes on: close(s); continue
close_and_next(c, why) ==
  [next_candidate(c, why) EXCEPT !.socks[c.i] = "closed"]

\* audiosocket_connect is called; ast_sockaddr_resolve yields num candidates
\* (none: the call fails).
audiosocket_connect_resolve ==
  /\ conn.pc = "none"
  /\ \E num \in 0..MaxAddrs :
       conn' = IF num = 0
               THEN [conn EXCEPT !.pc = "done", !.ret = -1]
               ELSE [conn EXCEPT !.pc = "loop", !.num = num, !.i = 1,
                                 !.socks = [j \in 1..num |-> "none"],
                                 !.fate = [j \in 1..num |-> "untried"]]
  /\ UNCHANGED sessionVars

\* One pass of the for loop over the candidates up to the connect call: port
\* check, socket(), O_NONBLOCK, ast_connect.
audiosocket_connect_candidate ==
  /\ conn.pc = "loop" /\ conn.i <= conn.num
  /\ \E o \in CandidateOutcomes :
       conn' =
         IF o = "noport" THEN next_candidate(conn, o)
         ELSE IF o = "nosock" THEN [next_candidate(conn, o) EXCEPT !.s = -1]
         ELSE IF o = "noflags" THEN [close_and_next(conn, o) EXCEPT !.s = conn.i]
         ELSE IF o = "inprogress"
         THEN [conn EXCEPT !.s = conn.i, !.socks[conn.i] = "open",
                           !.fate[conn.i] = o, !.errno = "EINPROGRESS",
                           !.polls = 0, !.pc = "poll"]
         ELSE IF o = "connected_now"
         THEN [conn EXCEPT !.s = conn.i, !.socks[conn.i] = "connected",
                           !.fate[conn.i] = o, !.pc = "break"]
         ELSE [conn EXCEPT !.s = conn.i, !.socks[conn.i] = "open",
                           !.fate[conn.i] = o, !.errno = "ECONNREFUSED",
                           !.pc = "break"]
  /\ UNCHANGED sessionVars

\* errno after ast_poll returned r: set when it failed, else left as it was
poll_errno(r, failure, before) == IF r < 0 THEN failure ELSE before

\* handle_audiosocket_connection: one ast_poll of the wait loop.  1 ends the
\* wait; otherwise the function returns unless errno is EINTR.
handle_audiosocket_connection_poll ==
  /\ conn.pc = "poll"
  /\ \E r \in {1, 0, -1}, failure \in {"EINTR", "ENOMEM"} :
       LET errno == poll_errno(r, failure, conn.errno)
           c == [conn EXCEPT !.res = r, !.errno = errno]
       IN  IF r = 1 THEN conn' = [c EXCEPT !.pc = "sockopt"]
           ELSE IF errno # "EINTR"
           THEN conn' = close_and_next(c, IF r = 0 THEN "timeout" ELSE "poll_error")
           ELSE /\ conn.polls < MaxPolls
                /\ conn' = [c EXCEPT !.polls = conn.polls + 1]
  /\ UNCHANGED sessionVars

\* handle_audiosocket_connection after the wait: getsockopt(SO_ERROR) and
\* the test of conresult.
handle_audiosocket_connection_result ==
  /\ conn.pc = "sockopt"
  /\ \E o \in {"sockopt_error", "refused", "connected"} :
       conn' = IF o = "connected"
               THEN [conn EXCEPT !.socks[conn.i] = "connected",
                                 !.fate[conn.i] = o, !.pc = "break"]
               ELSE close_and_next(conn, o)
  /\ UNCHANGED sessionVars

\* audiosocket_connect after the loop: -1 when i == num_addrs, else s.
audiosocket_connect_return ==
  /\ conn.pc = "break" \/ (conn.pc = "loop" /\ conn.i > conn.num)
  /\ conn' = [conn EXCEPT !.pc = "done",
                          !.ret = IF conn.i > conn.num THEN -1 ELSE conn.s]
  /\ UNCHANGED sessionVars

InitConnect == InitOf({"app_old", "app_new"}, {UUID1}, {KIND_AUDIO},
                      {MaxPayload}, {VoiceFrame(F1Data)})

NextConnect ==
  \/ audiosocket_connect_resolve
  \/ audiosocket_connect_candidate
  \/ handle_audiosocket_connection_poll
  \/ handle_audiosocket_connection_result
  \/ audiosocket_connect_return

SpecConnect == InitConnect /\ [][NextConnect]_vars

(* ------------------- two sessions at the same time ------------------- *)
Sessions == {1, 2}

\* payloads of the audio messages the peer of session k sends
SessPayloads(k) ==
  IF k = 1 THEN {<<17, 34>>, <<51, 68, 85, 102>>}
  ELSE {<<119>>, <<136, 153, 170>>}

\* everything but duo
soloVars ==
  <<fixedVars, codec, conn, req, pc, runVars, wreqs, sockVars, chanInVars,
    chanOutVars, fmtVars, rd, fatal, closes, drvVars>>

\* Thread k in audiosocket_receive_frame has read a whole audio message
\* from its own socket into its locals len and data.
duo_receive_frame_read(k) ==
  /\ duo.pcs[k] = "idle" /\ Len(duo.dec[k]) < MaxSessFrames
  /\ \E p \in SessPayloads(k) :
       duo' = [duo EXCEPT !.pcs[k] = "fill", !.data[k] = p, !.len[k] = Len(p)]
  /\ UNCHANGED soloVars

\* f.frametype = AST_FRAME_VOICE; ... f.data.ptr = data;
duo_receive_frame_fill(k) ==
  /\ duo.pcs[k] = "fill"
  /\ duo' = [duo EXCEPT !.pcs[k] = "fill_len",
                        !.f.frametype = "VOICE", !.f.data = duo.data[k]]
  /\ UNCHANGED soloVars

\* f.datalen = len;
duo_receive_frame_fill_len(k) ==
  /\ duo.pcs[k] = "fill_len"
  /\ duo' = [duo EXCEPT !.pcs[k] = "fill_samples", !.f.datalen = duo.len[k]]
  /\ UNCHANGED soloVars

\* f.samples = len/2; ... return &f;  the frame thread k decoded is recorded
duo_receive_frame_return(k) ==
  /\ duo.pcs[k] = "fill_samples"
  /\ duo' = [duo EXCEPT !.pcs[k] = "write",
                        !.f.samples = duo.len[k] \div 2,
                        !.dec[k] = Append(@, VoiceFrame(duo.data[k]))]
  /\ UNCHANGED soloVars

\* audiosocket_run of thread k: ast_write(chan, f) with the pointer it got,
\* which is &f of audiosocket_receive_frame
duo_ast_write(k) ==
  /\ duo.pcs[k] = "write"
  /\ duo' = [duo EXCEPT !.pcs[k] = "idle", !.out[k] = Append(@, duo.f)]
  /\ UNCHANGED soloVars

InitDuo == InitOf({"app_new"}, {UUID1}, {KIND_AUDIO}, {MaxPayload},
                  {VoiceFrame(F1Data)})

NextDuo ==
  \E k \in Sessions :
    \/ duo_receive_frame_read(k)
    \/ duo_receive_frame_fill(k)
    \/ duo_receive_frame_fill_len(k)
    \/ duo_receive_frame_return(k)
    \/ duo_ast_write(k)

SpecDuo == InitDuo /\ [][NextDuo]_vars

(* ------------- the callers of audiosocket_connect --------------------- *)
\* everything but conn and req
callerVars ==
  <<fixedVars, codec, duo, pc, runVars, wreqs, sockVars, chanInVars,
    chanOutVars, fmtVars, rd, fatal, closes, drvVars>>

\* what write(2) may return on descriptor fd for n bytes: an unconnected
\* socket accepts nothing
fd_write_results(socks, fd, n) ==
  IF socks[fd] = "connected" THEN WriteResults(n) ELSE {-1}

\* audiosocket_thread starts and calls ast_audiosocket_connect.
audiosocket_thread_connect ==
  /\ variant = "app_new" /\ req.pc = "none"
  /\ req' = [req EXCEPT !.pc = "connect"]
  /\ UNCHANGED <<conn, callerVars>>

\* audiosocket_thread after the connect call: s < 0 ends the thread; else
\* the formats are set and audiosocket_run does its state check and the
\* handshake on s; when it fails the thread closes s.
audiosocket_thread_connected ==
  /\ variant = "app_new" /\ req.pc = "connect" /\ conn.pc = "done"
  /\ IF conn.ret < 0
     THEN req' = [req EXCEPT !.pc = "done", !.ret = "0"] /\ UNCHANGED conn
     ELSE \E fmt_ok \in BOOLEAN :
            IF ~fmt_ok
            THEN /\ req' = [req EXCEPT !.pc = "done", !.ret = "-1",
                                       !.fd = conn.ret]
                 /\ UNCHANGED conn
            ELSE \E acc \in fd_write_results(conn.socks, conn.ret, 3 + UUID_LEN) :
                   IF write_failed(acc, 3 + UUID_LEN)
                   THEN /\ req' = [req EXCEPT !.pc = "done", !.ret = "-1",
                                              !.fd = conn.ret, !.run = TRUE,
                                              !.hs = "failed"]
                        /\ conn' = [conn EXCEPT !.socks[conn.ret] = "closed"]
                   ELSE /\ req' = [req EXCEPT !.pc = "relay", !.fd = conn.ret,
                                              !.run = TRUE, !.hs = "written"]
                        /\ UNCHANGED conn
  /\ UNCHANGED callerVars

\* the ways audiosocket_request can go up to the connect call
RequestOutcomes ==
  {"nodata", "nodest", "unresolved", "noid", "badid", "badformat", "ok"}

\* audiosocket_request up to the connect call: the argument checks, the
\* allocation of the instance, the format check.
audiosocket_request_parse ==
  /\ variant = "chan" /\ req.pc = "none"
  /\ \E o \in RequestOutcomes :
       req' = IF o = "ok"
              THEN [req EXCEPT !.pc = "connect", !.instance = "allocated"]
              ELSE IF o = "badformat"
              THEN [req EXCEPT !.pc = "done", !.ret = "NULL",
                               !.instance = "allocated"]
              ELSE [req EXCEPT !.pc = "done", !.ret = "NULL"]
  /\ UNCHANGED <<conn, callerVars>>

\* audiosocket_request after the connect call: fd < 0 fails; else the
\* channel is allocated (which may fail) and given the instance.
audiosocket_request_connected ==
  /\ variant = "chan" /\ req.pc = "connect" /\ conn.pc = "done"
  /\ IF conn.ret < 0
     THEN req' = [req EXCEPT !.pc = "done", !.ret = "NULL"]
     ELSE \E alloc_ok \in BOOLEAN :
            req' = IF alloc_ok
                   THEN [req EXCEPT !.pc = "done", !.ret = "chan",
                                    !.fd = conn.ret, !.chan = "created",
                                    !.instance = "owned"]
                   ELSE [req EXCEPT !.pc = "done", !.ret = "NULL",
                                    !.fd = conn.ret]
  /\ UNCHANGED <<conn, callerVars>>

\* audiosocket_connect runs while its caller is in the call
InConnect == req.pc = "connect"

InitRequest == InitOf({"app_new", "chan"}, {UUID1}, {KIND_AUDIO},
                      {MaxPayload}, {VoiceFrame(F1Data)})

NextRequest ==
  \/ audiosocket_thread_connect
  \/ audiosocket_thread_connected
  \/ audiosocket_request_parse
  \/ audiosocket_request_connected
  \/ InConnect /\ audiosocket_connect_resolve
  \/ InConnect /\ audiosocket_connect_candidate
  \/ InConnect /\ handle_audiosocket_connection_poll
  \/ InConnect /\ handle_audiosocket_connection_result
  \/ InConnect /\ audiosocket_connect_return

SpecRequest == InitRequest /\ [][NextRequest]_vars

(* ============================== claims ================================ *)
\* the identifier message of the protocol for UUID u
IdMessage(u) == <<1, 0, 16>> \o u

\* the write(2) calls issued by audiosocket_init
InitWrites == {i \in DOMAIN wreqs : wreqs[i].op = "init"}

C2_IdentifierFirstOnce ==
  /\ wreqs # <<>> => wreqs[1].op = "init"
  /\ Cardinality(InitWrites) <= 1

\* the audio messages for the voice frames among fs, in order
RECURSIVE AudioBytes(_)
AudioBytes(fs) ==
  IF fs = <<>> THEN <<>>
  ELSE (IF Head(fs).frametype = "VOICE"
        THEN <<16, Head(fs).datalen \div 256, Head(fs).datalen % 256>>
             \o Head(fs).data
        ELSE <<>>)
       \o AudioBytes(Tail(fs))

AllWritesAccepted == \A i \in DOMAIN wreqs : wreqs[i].acc = Len(wreqs[i].buf)

\* the channel yields F1, F2 and then hangs up; the socket yields nothing and
\* accepts every write
C3_Scenario ==
  /\ IsPrefix(chanHist, <<VoiceFrame(F1Data), VoiceFrame(F2Data), HangupEvent>>)
  /\ chanState = "UP"
  /\ sockMsgs = <<>> /\ sockEnd = "open"
  /\ AllWritesAccepted
  /\ exitAt \notin {"waitfor", "thread_wfmt", "thread_rfmt", "run_wfmt", "run_rfmt"}

\* C3: with a channel that yields F1, F2 and then hangup and a silent socket,
\* the socket receives after the handshake exactly the audio messages of the
\* frames read so far, in order, and once ast_read has reported the hangup
\* the relay has returned, by the hangup exit, with both messages written.
C3_ForwardThenHangup ==
  C3_Scenario =>
    /\ pc \notin {"start", "run"} =>
         SockOut = IdMessage(uuid) \o AudioBytes(chanHist) \/
         (chanQ # <<>> /\
          SockOut = IdMessage(uuid) \o AudioBytes(Prefix(chanHist, Len(chanHist) - 1)))
    /\ lastRead = HangupEvent =>
         /\ pc \in {"ret", "exit"}
         /\ exitAt = "read_null"
         /\ SockOut = IdMessage(uuid) \o AudioBytes(<<VoiceFrame(F1Data), VoiceFrame(F2Data)>>)

\* the top of either revision's loop
RelayIterate == audiosocket_run_iterate \/ old_audiosocket_run_iterate

\* the socket holds 10 00 02 AA BB and then 10 00 00; the channel produces
\* nothing and stays up
C4_Scenario ==
  /\ IsPrefix(sockMsgs, << [kind |-> 16, payload |-> <<170, 187>>],
                           [kind |-> 16, payload |-> <<>>] >>)
  /\ sockEnd = "open"
  /\ chanHist = <<>> /\ chanState = "UP"

\* C4: the relay waits on either side: with the channel silent, whenever
\* bytes of the socket stream are pending at the top of the loop, the loop
\* can go on to decode them.
C4_WaitsOnEitherSide ==
  (C4_Scenario /\ pc = "wait" /\ sockAvail # <<>>) =>
    ENABLED (RelayIterate /\ pc' = "rd_kind")

\* C5: at end of stream on the kind byte the decoder's result differs from
\* its would-block result, and the relay does not come back to the top of its
\* loop after it.
C5_EofIsTerminal ==
  /\ (pc = "rd_ret" /\ rd.site = "eof") =>
       frame_of(rd) # frame_of([rd EXCEPT !.site = "again"])
  /\ ~(pc = "wait" /\ rd.site = "eof")

\* the decoder call has returned on a stream that ended inside a message:
\* after the kind byte and before the second length byte, or before the
\* declared payload was complete
Truncated ==
  /\ pc = "rd_ret"
  /\ sockEnd = "eof" /\ sockAvail = <<>>
  /\ rd.consumed >= 1
  /\ rd.consumed < 3 \/ Len(rd.data) < rd.len

\* C6: a decoder call that returns on a stream that ended inside a message
\* returns a fatal error (NULL, a non-zero result of forward_frame), never a
\* frame nor the null frame, and the relay's next step is to return an error
\* with nothing written to the channel.
C6_TruncatedIsFatal ==
  /\ [](Truncated =>
          /\ rd.site \in {"err_len", "err_data"}
          /\ frame_of(rd) = NULL
          /\ forward_ret(rd.site) # "0")
  /\ [][Truncated =>
          /\ pc' = "ret"
          /\ runRet' \in {"-1", "1"}
          /\ UNCHANGED chanOutVars]_vars

\* C6 witness: the stream ended after one of the declared payload bytes was
\* read, and the relay has returned an error with nothing written.
C6_Witness ==
  /\ pc = "ret" /\ runRet \in {"-1", "1"}
  /\ rd.site = "err_data" /\ rd.len = MaxPayload /\ Len(rd.data) = 1
  /\ sockEnd = "eof"
  /\ lastWrite = NoWrite

\* C7: while the connection is open, a decoder call never returns a fatal
\* error: bytes that have not arrived yet are waited for.
C7_ShortReadsTolerated ==
  (pc = "rd_ret" /\ sockEnd = "open") => rd.site \notin FatalSites

\* bytes of the messages ms on the wire
RECURSIVE MsgBytes(_)
MsgBytes(ms) ==
  IF ms = <<>> THEN 0 ELSE 3 + Len(Head(ms).payload) + MsgBytes(Tail(ms))

\* C8: a decoder call that returns without a fatal error has consumed either
\* nothing or exactly the 3 + length bytes of one message the peer sent, kind
\* and payload as sent, and leaves the read position at the end of that
\* message.
C8_WholeMessages ==
  (pc = "rd_ret" /\ rd.site \notin FatalSites) =>
    /\ rcount = rd.start + rd.consumed
    /\ \E k \in 0..Len(sockMsgs) :
         /\ rd.start = MsgBytes(Prefix(sockMsgs, k))
         /\ \/ rd.consumed = 0 /\ rd.site \in {"again", "eof"}
            \/ /\ k < Len(sockMsgs)
               /\ rd.consumed = 3 + Len(sockMsgs[k + 1].payload)
               /\ rd.kind = sockMsgs[k + 1].kind
               /\ rd.len = Len(sockMsgs[k + 1].payload)
               /\ rd.data = sockMsgs[k + 1].payload

\* C8 witness: the second message, of the unknown kind 0x7e with a payload,
\* has been consumed whole after a first message of length 0.
C8_Witness ==
  /\ pc = "rd_ret" /\ rd.site = "ignored"
  /\ rd.kind = 126 /\ rd.len = MaxPayload
  /\ rd.start = 3 /\ rcount = 6 + MaxPayload

\* C9: a complete message of a kind other than 0x10 never makes the relay
\* return, and no frame written to the channel carries other than the payload
\* of an audio message.
C9_NonAudioHarmless ==
  /\ (pc = "ret" /\ exitAt \in {"recv_null", "chan_write", "forward"}) =>
       rd.site # "ignored"
  /\ \A i \in DOMAIN chanOut :
       \E j \in DOMAIN sockMsgs :
         sockMsgs[j].kind = 16 /\ sockMsgs[j].payload = chanOut[i].data

\* C10: ast_write is called only with a voice frame of non-zero length.
C10_OnlyAudioWritten ==
  \/ lastWrite = NoWrite
  \/ lastWrite.f.frametype = "VOICE" /\ lastWrite.f.datalen > 0

\* C11: for every payload of length L <= 65535, audiosocket_send_frame hands
\* write(2) exactly 3 + L bytes: 0x10, L div 256, L mod 256 and the payload
\* unchanged, and it returns success when the write accepts all of them.
C11_SendFrameBytes ==
  (codec.stage # "none" /\ codec.len <= 65535) =>
    /\ codec.hdr = <<16, codec.len \div 256, codec.len % 256>>
    /\ codec.buflen = 3 + codec.len
    /\ codec.bodyOk
    /\ codec.acc = 3 + codec.len => codec.ret = "0"

\* C11 witness: a 65535-byte payload was sent with the length bytes ff ff and
\* the call succeeded.
C11_Witness ==
  /\ codec.stage = "sent" /\ codec.len = 65535
  /\ codec.hdr = <<16, 255, 255>> /\ codec.acc = 65538
  /\ codec.ret = "0"

\* C12: for a payload longer than 65535 bytes audiosocket_send_frame fails
\* and no byte reaches the socket; no header carrying the length modulo
\* 65536 is built.
C12_OversizeRefused ==
  (codec.stage # "none" /\ codec.len > 65535) =>
    /\ codec.ret # "0"
    /\ codec.acc <= 0
    /\ codec.hdr # <<16, (codec.len % 65536) \div 256, codec.len % 256>>

\* C13: for every payload p of length 0..65535 that audiosocket_send_frame
\* wrote whole, audiosocket_receive_frame on those bytes returns the empty
\* result when p is empty and otherwise a voice frame of the same length
\* with the same bytes, having read exactly the message.
C13_RoundTrip ==
  (codec.stage = "decoded" /\ codec.len <= 65535 /\ codec.acc = codec.buflen) =>
    IF codec.len = 0
    THEN codec.site = "empty" /\ codec.consumed = 3
    ELSE /\ codec.site = "frame"
         /\ codec.dlen = codec.len
         /\ codec.dataOk
         /\ codec.consumed = 3 + codec.len

\* C13 witness: a 65535-byte payload came back as a frame of 65535 bytes.
C13_Witness ==
  /\ codec.stage = "decoded" /\ codec.len = 65535
  /\ codec.acc = codec.buflen
  /\ codec.site = "frame" /\ codec.dlen = 65535 /\ codec.dataOk

\* C14: the descriptor audiosocket_connect returns is that of a candidate
\* whose connection succeeded, whatever the initial connect call gave.
C14_ReturnsConnected ==
  (conn.pc = "done" /\ conn.ret >= 0) =>
    /\ conn.ret \in 1..conn.num
    /\ conn.socks[conn.ret] = "connected"

\* the candidate's attempt is over and did not give a connection
Failed(j) == conn.fate[j] \notin {"untried", "inprogress", "connected_now", "connected"}

\* C15: a candidate that failed to connect, in any way, is followed by the
\* attempt on the next one: when the call has returned, every candidate
\* after a failed one has been tried, the call has failed only if all of
\* them failed, and a candidate it succeeded with is the first that did not.
C15_AdvancesInOrder ==
  conn.pc = "done" =>
    /\ \A j \in 1..conn.num :
         (Failed(j) /\ j < conn.num) => conn.fate[j + 1] # "untried"
    /\ conn.ret = -1 => \A j \in 1..conn.num : Failed(j)
    /\ conn.ret >= 1 => \A j \in 1..(conn.ret - 1) : Failed(j)

\* C16: a poll of the connect wait that reports the timeout (returns 0) ends
\* the wait for that candidate: the wait never goes on after it.
C16_TimeoutEndsWait ==
  ~(conn.pc = "poll" /\ conn.res = 0 /\ conn.polls > 0)

\* C17: the session's socket is closed exactly once on every path: never
\* twice, and once the session thread has finished, whether the relay ran or
\* the setup of the channel formats failed before it, it has been closed.
C17_ClosedExactlyOnce ==
  /\ closes <= 1
  /\ pc = "exit" => closes = 1

\* C18: audiosocket_run leaves the socket open and the channel formats as
\* they were when it was called (the original ones in app_audiosocket.c,
\* slin as set by audiosocket_thread in apps/app_audiosocket.c): when it has
\* returned, nothing was closed and neither format was set.
C18_RunLeavesSocketAndFormats ==
  pc = "ret" =>
    /\ closes = 0
    /\ variant = "app_old" => (wfmt = "orig" /\ rfmt = "orig")
    /\ variant = "app_new" => (wfmt = "slin" /\ rfmt = "slin")

\* C20: at the top of an iteration with the channel not up and a voice frame
\* pending, the iteration reads no frame from the channel and writes
\* nothing to the socket.
C20_StateRechecked ==
  (pc = "wait" /\ chanState # "UP" /\ chanQ # <<>> /\
   Head(chanQ).frametype = "VOICE") =>
    ~ ENABLED (RelayIterate /\ (wreqs' # wreqs \/ lastRead' # lastRead))

\* C19: with two sessions running at once, every frame a session has written
\* to its channel is, in order, the frame that session decoded from its own
\* socket: same payload, length and sample count.
C19_SessionsIndependent ==
  \A k \in Sessions :
    \A i \in DOMAIN duo.out[k] : duo.out[k][i] = duo.dec[k][i]

\* the return statements inside the relay loop taken for a call-lifecycle
\* end: ast_read gave NULL (hangup), the channel is not UP
NormalSites == {"read_null", "state"}

\* the return statements taken for a failure: socket write, channel write,
\* fatal decoder result
FailureSites == {"send", "chan_write", "recv_null", "forward"}

\* the value each revision's audiosocket_run returns at its failure sites
FailureRet == IF variant = "app_new" THEN "-1" ELSE "1"

\* C21: the value audiosocket_run returns for a normal end of the call
\* (hangup, channel down) is never the value it returns for a failure
\* (socket write failed, channel write failed, truncated message).
C21_NormalEndDistinct ==
  /\ exitAt \in FailureSites => runRet = FailureRet
  /\ exitAt \in NormalSites => runRet # FailureRet

\* the frames ast_read has handed to the relay so far
FramesRead == Prefix(chanHist, Len(chanHist) - Len(chanQ))

\* the buffers of the audiosocket_send_frame calls so far
SendBufs ==
  LET sends == SelectSeq(wreqs, LAMBDA w : w.op = "send")
  IN  [i \in DOMAIN sends |-> sends[i].buf]

\* the audio messages of the voice frames among fs, one per frame
VoiceBufs(fs) ==
  LET voice == SelectSeq(fs, LAMBDA f : f.frametype = "VOICE")
  IN  [i \in DOMAIN voice |-> <<16, voice[i].datalen \div 256,
                                voice[i].datalen % 256>> \o voice[i].data]

\* C22: only audio goes to the socket: the audio messages handed to write
\* are, one for one and in order, those of the voice frames read from the
\* channel; a frame that is not voice causes no write and does not end the
\* loop's channel half.
C22_OnlyAudioSent ==
  variant \in {"app_old", "app_new"} =>
    /\ SendBufs = VoiceBufs(FramesRead)
    /\ lastRead = ControlFrame => exitAt \notin {"send", "read_null"}
    /\ \A i \in DOMAIN wreqs : wreqs[i].op \in {"init", "send"}

\* a control frame and then a voice frame were read; one audio message went out
C22_Witness ==
  /\ variant \in {"app_old", "app_new"}
  /\ Len(FramesRead) = 2 /\ FramesRead[1] = ControlFrame
  /\ FramesRead[2].frametype = "VOICE"
  /\ Len(SendBufs) = 1
  /\ pc \in {"wait", "rd_kind"}

\* C23: a short write of the identifier message is followed by a write of
\* the rest, and the handshake reports failure only after a write that
\* returned an error.
C23_HandshakeRetriesShortWrites ==
  /\ \A i \in DOMAIN wreqs :
       (wreqs[i].op = "init" /\ wreqs[i].acc >= 0
        /\ wreqs[i].acc < Len(wreqs[i].buf)) =>
         /\ i < Len(wreqs)
         /\ wreqs[i + 1].op = "init"
         /\ wreqs[i + 1].buf = Drop(wreqs[i].buf, wreqs[i].acc)
  /\ exitAt = "init" => wreqs[Len(wreqs)].acc = -1

\* C27: when audiosocket_connect has returned, every socket it opened for a
\* candidate whose connect did not complete is closed; after a return of -1
\* no socket of the call is open.
C27_LosersClosed ==
  conn.pc = "done" =>
    \A j \in 1..conn.num : conn.socks[j] \in {"none", "closed", "connected"}

\* audiosocket_connect has returned and no candidate's connect completed
ConnectFailed ==
  /\ conn.pc = "done"
  /\ \A j \in 1..conn.num : conn.fate[j] \notin {"connected_now", "connected"}

\* C24: when connection establishment fails, session creation stops there:
\* audiosocket_run is not entered, no handshake write is made, the driver
\* creates no channel and hands the instance to none.
C24_ConnectFailureAborts ==
  ConnectFailed =>
    /\ ~req.run /\ req.hs = "none" /\ req.pc # "relay"
    /\ req.chan = "none" /\ req.instance # "owned"

\* C30: when audiosocket_request has returned NULL, the instance it
\* allocated is released and no socket of its connect call is open.
C30_RequestFailureReleases ==
  (variant = "chan" /\ req.pc = "done" /\ req.ret = "NULL") =>
    /\ req.instance \in {"none", "freed"}
    /\ \A j \in 1..conn.num : conn.socks[j] \in {"none", "closed"}

\* the messages of the peer the decoder has consumed whole
DecodedMsgs ==
  LET ks == {k \in 0..Len(sockMsgs) : MsgBytes(Prefix(sockMsgs, k)) <= rcount}
  IN  Prefix(sockMsgs, CHOOSE k \in ks : \A j \in ks : j <= k)

\* the voice frames of the audio messages with a payload among ms, in order
FramesOf(ms) ==
  LET audio == SelectSeq(ms, LAMBDA m : m.kind = KIND_AUDIO /\ m.payload # <<>>)
  IN  [i \in DOMAIN audio |->
         [frametype |-> "VOICE", data |-> audio[i].payload,
          datalen |-> Len(audio[i].payload),
          samples |-> Len(audio[i].payload) \div 2]]

\* the frame of the latest decoded message is not in the channel: the decoder
\* has just returned it, or ast_write refused it (which ends the relay)
LastFrameOutstanding ==
  \/ pc = "rd_ret" /\ rd.site = "frame"
  \/ ~lastWrite.ok /\ lastWrite.f.frametype = "VOICE"

\* the voice frames written to the channel are those of the decoded audio
\* messages with a payload, in order and unchanged
VoiceForwarded ==
  LET exp == FramesOf(DecodedMsgs)
  IN  chanOut = IF LastFrameOutstanding /\ exp # <<>>
                THEN Prefix(exp, Len(exp) - 1) ELSE exp

\* C25: the frames given to ast_write and accepted are exactly those of the
\* decoded audio messages of nonzero length, in the order received, each with
\* datalen the message length, samples datalen div 2 and the payload
\* unchanged; no other frame is written to the channel.
C25_ForwardingOneToOne ==
  variant \in {"app_old", "app_new"} => (VoiceForwarded /\ ~nullWrites)

\* this step made an audiosocket_send_frame write that did not take the
\* whole message
SendFailedStep ==
  /\ Len(wreqs') = Len(wreqs) + 1
  /\ wreqs'[Len(wreqs')].op = "send"
  /\ wreqs'[Len(wreqs')].acc # Len(wreqs'[Len(wreqs')].buf)

\* this step made an ast_write call that failed
ChanWriteFailedStep == lastWrite.ok /\ ~lastWrite'.ok

\* no channel read or write and no socket read or write in this step
NoIoStep == UNCHANGED <<wreqs, rcount, chanQ, lastRead, chanOut, lastWrite>>

\* C26: a failed write is terminal: the step in which a socket write of an
\* audio message or a channel write fails is the step in which the relay
\* returns its failure value, and once the relay has returned it does no
\* channel or socket I/O.
C26_FailedWriteTerminal ==
  [][/\ (SendFailedStep \/ ChanWriteFailedStep) =>
          (pc' = "ret" /\ runRet' = FailureRet /\ exitAt' # "none")
     /\ pc \in {"ret", "exit"} => (NoIoStep /\ pc' = "exit")]_vars

\* the relay has ended after a socket write took only the 3-byte header of an
\* audio message, with frames forwarded to the channel before that
C26_Witness ==
  /\ pc = "exit" /\ exitAt = "send"
  /\ wreqs[Len(wreqs)].op = "send" /\ wreqs[Len(wreqs)].acc = 3
  /\ chanOut # <<>>

\* C28: when the decoder returns, the payload buffer it allocated is owned by
\* the returned voice frame or has been freed: none is left allocated with
\* no reference to it.
C28_PayloadBufferOwned ==
  pc = "rd_ret" => rd.buf \in {"none", "owned", "freed"}

\* a driver callback other than audiosocket_call was issued and has returned
\* in this step
CallbackStep == ops' = ops + 1 /\ pc' = "idle"

\* C29: on one driver channel the socket is closed at most once, and once
\* audiosocket_hangup has run, every read, write or hangup callback returns
\* at once (NULL, -1, 0) without reading, writing or closing the descriptor.
C29_HangupOnce ==
  [][/\ closes' <= 1
     /\ (variant = "chan" /\ pvt = "NULL" /\ CallbackStep) =>
          /\ drvRet' \in {"NULL", "-1", "0"}
          /\ UNCHANGED <<wreqs, rcount, sockAvail, closes>>]_vars

\* after the hangup closed the socket, two more callbacks were issued and the
\* latest, a read or a write, returned failure
C29_Witness ==
  /\ variant = "chan" /\ pvt = "NULL" /\ closes = 1
  /\ ops >= 3 /\ pc = "idle" /\ wreqs = <<>>
  /\ drvRet \in {"NULL", "-1"}
====
